---------------------------- MODULE Spec2Model ----------------------------
(***************************************************************************)
(* The package manifest of blacksky-md (setup.py) and an install attempt   *)
(* that consumes it.                                                       *)
(*                                                                         *)
(* The manifest is the keyword arguments of one setup() call: a name, a    *)
(* version, the result of find_packages(), two requirement strings and a   *)
(* Requires-Python specifier.  Strings are kept as sequences of            *)
(* one-character strings so that the requirement and version grammar       *)
(* (PEP 508 / PEP 440, release segment only) is parsed character by        *)
(* character and versions are compared as tuples of integers.              *)
(*                                                                         *)
(* An install attempt executes the manifest (Setup), then evaluates the    *)
(* declared constraints against an environment: the running interpreter's *)
(* version and the releases the dependency index offers.  The manifest     *)
(* fixes WHAT is required; the order in which the packaging tool evaluates *)
(* the constraints and which satisfying release it selects are not fixed   *)
(* by the manifest, so the model leaves both open.                         *)
(***************************************************************************)
EXTENDS Integers, Sequences, FiniteSets

(***************************************************************************)
(* Bounds of the model.                                                    *)
(***************************************************************************)
\* install attempts made against the same manifest and index
MaxAttempts == 2
\* releases of one dependency the index offers at most
MaxReleases == 2

(***************************************************************************)
(* The manifest: the literals of setup.py.                                 *)
(***************************************************************************)
name == <<"b","l","a","c","k","s","k","y","-","m","d">>

\* A version cut short: "1.0".
version_two_part == <<"1",".","0">>

version == <<"1",".","0",".","0">>

\* The twilio minimum one patch too low: "twilio>=9.4.5".
install_requires_lower ==
  << <<"t","w","i","l","i","o",">","=","9",".","4",".","5">>,
     <<"t","r","a","f","i","l","a","t","u","r","a",">","=","2",".","0",".","0">> >>

\* The twilio requirement without its version: "twilio".
install_requires_unbounded ==
  << <<"t","w","i","l","i","o">>,
     <<"t","r","a","f","i","l","a","t","u","r","a",">","=","2",".","0",".","0">> >>

install_requires ==
  << <<"t","w","i","l","i","o",">","=","9",".","4",".","6">>,
     <<"t","r","a","f","i","l","a","t","u","r","a",">","=","2",".","0",".","0">> >>

\* An exclusive bound: ">3.11".
python_requires_exclusive == <<">","3",".","1","1">>

python_requires == <<">","=","3",".","1","1">>

\* The repository tree setup.py is executed in: the paths of its files.
RepositoryTree == { <<"setup.py">> }

(***************************************************************************)
(* Text: digits, numbers, splitting.                                       *)
(***************************************************************************)
DigitChars == {"0","1","2","3","4","5","6","7","8","9"}

LetterChars ==
  {"a","b","c","d","e","f","g","h","i","j","k","l","m",
   "n","o","p","q","r","s","t","u","v","w","x","y","z"}

DigitValue(c) ==
  CASE c = "0" -> 0 [] c = "1" -> 1 [] c = "2" -> 2 [] c = "3" -> 3
    [] c = "4" -> 4 [] c = "5" -> 5 [] c = "6" -> 6 [] c = "7" -> 7
    [] c = "8" -> 8 [] c = "9" -> 9

IsNumber(s) == Len(s) > 0 /\ \A i \in 1..Len(s) : s[i] \in DigitChars

RECURSIVE ParseInt(_)
ParseInt(s) ==
  IF s = <<>> THEN 0
  ELSE ParseInt(SubSeq(s, 1, Len(s) - 1)) * 10 + DigitValue(s[Len(s)])

\* s.split(sep) for a one-character separator.
RECURSIVE Split(_, _)
Split(s, sep) ==
  IF \A i \in 1..Len(s) : s[i] # sep THEN <<s>>
  ELSE LET k == CHOOSE i \in 1..Len(s) :
                   s[i] = sep /\ \A j \in 1..(i - 1) : s[j] # sep
       IN  <<SubSeq(s, 1, k - 1)>> \o Split(SubSeq(s, k + 1, Len(s)), sep)

(***************************************************************************)
(* Versions (PEP 440, release segment): dot-separated integers, compared   *)
(* component by component as integers, the shorter one padded with zeros.  *)
(***************************************************************************)
ParseVersion(s) ==
  LET parts == Split(s, ".")
  IN  IF \A i \in 1..Len(parts) : IsNumber(parts[i])
      THEN [valid |-> TRUE,
            release |-> [i \in 1..Len(parts) |-> ParseInt(parts[i])]]
      ELSE [valid |-> FALSE, release |-> <<>>]

Component(v, i) == IF i <= Len(v) THEN v[i] ELSE 0

LongerLen(a, b) == IF Len(a) >= Len(b) THEN Len(a) ELSE Len(b)

\* Versions compared as text, character by character: "3.9" after "3.11".
RECURSIVE Decimal(_)
Decimal(n) == IF n < 10 THEN <<n>> ELSE Decimal(n \div 10) \o <<n % 10>>

RECURSIVE Rendered(_)
Rendered(v) ==
  IF Len(v) = 0 THEN <<>>
  ELSE IF Len(v) = 1 THEN Decimal(v[1])
  ELSE Decimal(v[1]) \o <<-1>> \o Rendered(SubSeq(v, 2, Len(v)))

VersionCmpText(a, b) ==
  LET x == Rendered(a)
      y == Rendered(b)
      n == IF Len(x) <= Len(y) THEN Len(x) ELSE Len(y)
      differ == {i \in 1..n : x[i] # y[i]}
  IN  IF differ = {}
      THEN IF Len(x) = Len(y) THEN 0 ELSE IF Len(x) < Len(y) THEN -1 ELSE 1
      ELSE LET k == CHOOSE i \in differ : \A j \in differ : i <= j
           IN  IF x[k] < y[k] THEN -1 ELSE 1

\* -1, 0 or 1 as a is older than, equal to or newer than b.
VersionCmp(a, b) ==
  LET n == LongerLen(a, b)
      differ == {i \in 1..n : Component(a, i) # Component(b, i)}
  IN  IF differ = {} THEN 0
      ELSE LET k == CHOOSE i \in differ : \A j \in differ : i <= j
           IN  IF Component(a, k) < Component(b, k) THEN -1 ELSE 1


(***************************************************************************)
(* Version specifiers (PEP 440): an operator followed by a version; a      *)
(* specifier set is a comma-separated list, satisfied when every member    *)
(* is.                                                                     *)
(***************************************************************************)
TwoCharOperators ==
  { <<">","=">>, <<"<","=">>, <<"=","=">>, <<"!","=">>, <<"~","=">> }

OneCharOperators == { <<">">>, <<"<">> }

OperatorOf(s) ==
  IF Len(s) >= 2 /\ SubSeq(s, 1, 2) \in TwoCharOperators THEN SubSeq(s, 1, 2)
  ELSE IF Len(s) >= 1 /\ SubSeq(s, 1, 1) \in OneCharOperators
       THEN SubSeq(s, 1, 1)
       ELSE <<>>

OperatorName(o) ==
  CASE o = <<">","=">> -> ">=" [] o = <<"<","=">> -> "<="
    [] o = <<"=","=">> -> "==" [] o = <<"!","=">> -> "!="
    [] o = <<"~","=">> -> "~=" [] o = <<">">> -> ">"
    [] o = <<"<">> -> "<"      [] OTHER -> "none"

ParseSpecifier(s) ==
  LET o == OperatorOf(s)
      v == ParseVersion(SubSeq(s, Len(o) + 1, Len(s)))
  IN  [valid |-> o # <<>> /\ v.valid,
       op |-> OperatorName(o),
       release |-> v.release]

ParseSpecifierSet(s) ==
  IF s = <<>> THEN <<>>
  ELSE LET parts == Split(s, ",")
       IN  [i \in 1..Len(parts) |-> ParseSpecifier(parts[i])]

ValidSpecifierSet(specs) == \A i \in 1..Len(specs) : specs[i].valid

\* Does version v satisfy one specifier?
Satisfies(spec, v) ==
  LET c == VersionCmp(v, spec.release)
  IN  CASE spec.op = ">=" -> c >= 0
        [] spec.op = ">"  -> c > 0
        [] spec.op = "<=" -> c <= 0
        [] spec.op = "<"  -> c < 0
        [] spec.op = "==" -> c = 0
        [] spec.op = "!=" -> c # 0
        [] spec.op = "~=" ->
             /\ c >= 0
             /\ \A i \in 1..(Len(spec.release) - 1) :
                  Component(v, i) = spec.release[i]
        [] OTHER -> FALSE

SatisfiesAll(specs, v) == \A i \in 1..Len(specs) : Satisfies(specs[i], v)

(***************************************************************************)
(* Requirement strings (PEP 508, name and version specifiers only): a      *)
(* project name followed by a specifier set.                               *)
(***************************************************************************)
NameChars == LetterChars \cup DigitChars \cup {"-", "_", "."}

NameLen(s) ==
  LET ends == {i \in 0..Len(s) : \A j \in 1..i : s[j] \in NameChars}
  IN  CHOOSE i \in ends : \A j \in ends : j <= i

ParseRequirement(s) ==
  LET n == NameLen(s)
      specs == ParseSpecifierSet(SubSeq(s, n + 1, Len(s)))
  IN  [valid |-> /\ n > 0
                 /\ s[1] \in LetterChars \cup DigitChars
                 /\ s[n] \in LetterChars \cup DigitChars
                 /\ ValidSpecifierSet(specs),
       name |-> SubSeq(s, 1, n),
       specs |-> specs]

\* The project a requirement names, as the index and the environment key it.
ProjectKey(n) ==
  CASE n = <<"t","w","i","l","i","o">> -> "twilio"
    [] n = <<"t","r","a","f","i","l","a","t","u","r","a">> -> "trafilatura"
    [] n = <<"b","l","a","c","k","s","k","y","-","m","d">> -> "blacksky-md"
    [] OTHER -> "unknown"

(***************************************************************************)
(* find_packages(): the directories of the tree that hold an __init__.py,  *)
(* reached through directories that are packages themselves.               *)
(***************************************************************************)
Directories(tree) ==
  UNION { { SubSeq(p, 1, k) : k \in 1..(Len(p) - 1) } : p \in tree }

LooksLikePackage(tree, d) == (d \o <<"__init__.py">>) \in tree

\* Every top-level entry of the tree taken for a package.
FindTopLevelEntries(tree) == { p \in tree : Len(p) = 1 }

FindPackages(tree) ==
  { d \in Directories(tree) :
      \A k \in 1..Len(d) : LooksLikePackage(tree, SubSeq(d, 1, k)) }

(***************************************************************************)
(* The environment of an install attempt.                                  *)
(***************************************************************************)
NoVersion == <<>>

\* Versions of the running interpreter the attempts are tried under.
PythonVersions ==
  { <<3,9>>, <<3,10>>, <<3,10,12>>, <<3,11>>, <<3,12,1>> }

\* Releases a dependency index may offer, per project.
Published(project) ==
  CASE project = "twilio" ->
         { <<9,4,5>>, <<9,4,6>>, <<9,4,10>>, <<9,10,0>>, <<10,0,0>> }
    [] project = "trafilatura" -> { <<1,12,2>>, <<2,0,0>>, <<3,0,0>> }
    [] OTHER -> {}

\* Releases the environment may hold before the first attempt.
Preinstalled(project) ==
  CASE project = "twilio" -> { NoVersion, <<9,4,5>>, <<9,10,0>> }
    [] project = "trafilatura" -> { NoVersion, <<2,0,0>> }
    [] OTHER -> { NoVersion }

Distributions == {"blacksky-md", "twilio", "trafilatura"}

Offers(project) ==
  { rs \in SUBSET Published(project) : Cardinality(rs) <= MaxReleases }

VARIABLES
  manifest,       \* the declared values of setup.py
  python,         \* version of the interpreter the attempt runs under
  index,          \* releases the dependency index offers, per project
  site,           \* installed version of each distribution, or NoVersion
  modules,        \* importable packages blacksky-md itself has installed
  pc,             \* "start", "check" or "done": where the attempt stands
  dist,           \* the metadata setup() built from the manifest
  pythonChecked,  \* Requires-Python has been evaluated and is satisfied
  chosen,         \* the release selected for each requirement, or NoVersion
  outcome,        \* "none" while running, then "ok" or the error
  attempt,        \* number of the current attempt
  reads           \* times the manifest was evaluated in this attempt

vars == <<manifest, python, index, site, modules, pc, dist, pythonChecked,
          chosen, outcome, attempt, reads>>

NoDist ==
  [name |-> <<>>, version |-> NoVersion, packages |-> {},
   install_requires |-> <<>>, python_requires |-> <<>>]

Init ==
  /\ manifest = [name |-> name, version |-> version,
                 install_requires |-> install_requires,
                 python_requires |-> python_requires]
  /\ python \in PythonVersions
  /\ index \in [twilio : Offers("twilio"), trafilatura : Offers("trafilatura")]
  /\ \E t \in Preinstalled("twilio"), f \in Preinstalled("trafilatura") :
       site = [d \in Distributions |->
                 IF d = "twilio" THEN t
                 ELSE IF d = "trafilatura" THEN f ELSE NoVersion]
  /\ modules = {}
  /\ pc = "start"
  /\ dist = NoDist
  /\ pythonChecked = FALSE
  /\ chosen = <<>>
  /\ outcome = "none"
  /\ attempt = 1
  /\ reads = 0

Offered(project) == IF project \in DOMAIN index THEN index[project] ELSE {}

Installed(project) ==
  IF project \in DOMAIN site THEN site[project] ELSE NoVersion

\* The releases that can satisfy a requirement in this environment: the one
\* already installed, and those the index offers.
Candidates(req) ==
  LET project == ProjectKey(req.name)
  IN  { v \in Offered(project) \cup ({Installed(project)} \ {NoVersion}) :
          SatisfiesAll(req.specs, v) }

(***************************************************************************)
(* setup(name=..., version=..., packages=find_packages(),                  *)
(*       install_requires=[...], python_requires=...): the manifest is     *)
(* evaluated once and its strings are parsed into the distribution's       *)
(* metadata; a string that does not parse ends the attempt.                *)
(***************************************************************************)
\* What setup() makes of the manifest's strings.
Requirements(m) ==
  [i \in 1..Len(m.install_requires) |-> ParseRequirement(m.install_requires[i])]

ValidManifest(m) ==
  /\ m.name # <<>>
  /\ ParseVersion(m.version).valid
  /\ \A i \in 1..Len(m.install_requires) : Requirements(m)[i].valid
  /\ ValidSpecifierSet(ParseSpecifierSet(m.python_requires))

Metadata(m) ==
  [name |-> m.name,
   version |-> ParseVersion(m.version).release,
   packages |-> FindPackages(RepositoryTree),
   install_requires |-> Requirements(m),
   python_requires |-> ParseSpecifierSet(m.python_requires)]

Execute ==
  /\ pc = "start"
  /\ IF ValidManifest(manifest)
     THEN /\ dist' = Metadata(manifest)
          /\ chosen' = [i \in 1..Len(manifest.install_requires) |-> NoVersion]
          /\ pc' = "check"
          /\ outcome' = outcome
     ELSE /\ pc' = "done"
          /\ outcome' = "invalid-manifest"
          /\ UNCHANGED <<dist, chosen>>
  /\ reads' = reads + 1
  /\ UNCHANGED <<python, index, site, modules, pythonChecked, attempt>>

\* A setup() that consumed the requirement list it was handed.
SetupConsumesRequirements ==
  Execute /\ manifest' = [manifest EXCEPT !.install_requires = <<>>]

\* The call only reads its arguments.
Setup == Execute /\ UNCHANGED manifest

\* python_requires: the interpreter's version against Requires-Python.
CheckPython ==
  /\ pc = "check"
  /\ ~pythonChecked
  /\ IF SatisfiesAll(dist.python_requires, python)
     THEN pythonChecked' = TRUE /\ UNCHANGED <<pc, outcome>>
     ELSE pc' = "done" /\ outcome' = "requires-python"
          /\ UNCHANGED pythonChecked
  /\ UNCHANGED <<manifest, python, index, site, modules, dist, chosen,
                 attempt, reads>>

\* install_requires[i]: a release that satisfies the requirement is selected,
\* or none exists and the attempt ends.
Resolve(i) ==
  /\ pc = "check"
  /\ i \in 1..Len(chosen)
  /\ chosen[i] = NoVersion
  /\ LET cands == Candidates(dist.install_requires[i])
     IN  IF cands = {}
         THEN pc' = "done" /\ outcome' = "no-matching-distribution"
              /\ UNCHANGED chosen
         ELSE /\ \E v \in cands : chosen' = [chosen EXCEPT ![i] = v]
              /\ UNCHANGED <<pc, outcome>>
  /\ UNCHANGED <<manifest, python, index, site, modules, dist, pythonChecked,
                 attempt, reads>>

\* Every constraint is satisfied: the selected releases and the distribution
\* itself (its metadata and the packages it lists) enter the environment.
Install ==
  /\ pc = "check"
  /\ pythonChecked
  /\ \A i \in 1..Len(chosen) : chosen[i] # NoVersion
  /\ site' = [d \in Distributions |->
                IF d = ProjectKey(dist.name) THEN dist.version
                ELSE IF \E i \in 1..Len(chosen) :
                          ProjectKey(dist.install_requires[i].name) = d
                     THEN chosen[CHOOSE i \in 1..Len(chosen) :
                            ProjectKey(dist.install_requires[i].name) = d]
                     ELSE site[d]]
  /\ modules' = dist.packages
  /\ pc' = "done"
  /\ outcome' = "ok"
  /\ UNCHANGED <<manifest, python, index, dist, pythonChecked, chosen,
                 attempt, reads>>

\* The install process is run again against the same manifest and index.
Rerun ==
  /\ pc = "done"
  /\ attempt < MaxAttempts
  /\ attempt' = attempt + 1
  /\ pc' = "start"
  /\ dist' = NoDist
  /\ pythonChecked' = FALSE
  /\ chosen' = <<>>
  /\ outcome' = "none"
  /\ reads' = 0
  /\ UNCHANGED <<manifest, python, index, site, modules>>

Next ==
  \/ Setup
  \/ CheckPython
  \/ \E i \in 1..Len(chosen) : Resolve(i)
  \/ Install
  \/ Rerun

Spec == Init /\ [][Next]_vars

(***************************************************************************)
(* Properties.  Versions are compared here by plain integer arithmetic on  *)
(* major, minor and patch, independently of the parser above.              *)
(***************************************************************************)
Part(v, i) == IF Len(v) >= i THEN v[i] ELSE 0

\* v is major.minor.patch or later.
AtOrAbove(v, major, minor, patch) ==
  \/ Part(v, 1) > major
  \/ /\ Part(v, 1) = major
     /\ \/ Part(v, 2) > minor
        \/ Part(v, 2) = minor /\ Part(v, 3) >= patch

TwilioName == <<"t","w","i","l","i","o">>

TrafilaturaName == <<"t","r","a","f","i","l","a","t","u","r","a">>

IndexHolds(project, major, minor, patch) ==
  \E r \in index[project] : AtOrAbove(r, major, minor, patch)

Holds(project, major, minor, patch) ==
  /\ site[project] # NoVersion
  /\ AtOrAbove(site[project], major, minor, patch)

\* Interpreter at 3.11 or later and an index offering both dependencies.
Compliant ==
  /\ AtOrAbove(python, 3, 11, 0)
  /\ IndexHolds("twilio", 9, 4, 6)
  /\ IndexHolds("trafilatura", 2, 0, 0)

Unsatisfiable(project, major, minor, patch) ==
  /\ ~IndexHolds(project, major, minor, patch)
  /\ ~Holds(project, major, minor, patch)

C5_DeclaredConstraints ==
  pc # "start" =>
    /\ Len(manifest.install_requires) = 2
    /\ dist.install_requires =
         << [valid |-> TRUE, name |-> TwilioName,
             specs |-> << [valid |-> TRUE, op |-> ">=",
                           release |-> <<9,4,6>>] >>],
            [valid |-> TRUE, name |-> TrafilaturaName,
             specs |-> << [valid |-> TRUE, op |-> ">=",
                           release |-> <<2,0,0>>] >>] >>
    /\ dist.python_requires =
         << [valid |-> TRUE, op |-> ">=", release |-> <<3,11>>] >>

C5_Witness ==
  /\ pc = "check"
  /\ Len(dist.install_requires) = 2
  /\ Len(dist.python_requires) = 1

\* major.minor.patch: three numbers, none with a leading zero.
IsSemVer(s) ==
  LET parts == Split(s, ".")
  IN  /\ Len(parts) = 3
      /\ \A i \in 1..3 :
           /\ IsNumber(parts[i])
           /\ Len(parts[i]) > 1 => parts[i][1] # "0"

\* C6: the declared name is non-empty and is "blacksky-md", and the
\* declared version "1.0.0" is a semantic version, major 1, minor 0, patch 0.
C6_NameAndVersion ==
  pc # "start" =>
    /\ Len(dist.name) > 0
    /\ dist.name = <<"b","l","a","c","k","s","k","y","-","m","d">>
    /\ manifest.version = <<"1",".","0",".","0">>
    /\ IsSemVer(manifest.version)
    /\ dist.version = <<1,0,0>>

C6_Witness ==
  /\ pc = "check"
  /\ ProjectKey(dist.name) = "blacksky-md"
  /\ Len(dist.version) = 3

Rank(p) == CASE p = "start" -> 0 [] p = "check" -> 1 [] p = "done" -> 2

Requirement(i) == dist.install_requires[i]

\* C10: the declared constraints are inclusive lower bounds on versions
\* compared number by number, with no upper bound: interpreters 3.9 and 3.10
\* are rejected and 3.11 accepted; twilio 9.4.6, 9.4.10, 9.10.0 and 10.0.0
\* and trafilatura 2.0.0 and 3.0.0 are accepted; and every evaluation an
\* attempt makes agrees with the integer comparison.
C10_InclusiveNumericLowerBounds ==
  pc # "start" /\ outcome # "invalid-manifest" =>
    /\ \A v \in PythonVersions :
         SatisfiesAll(dist.python_requires, v) <=> AtOrAbove(v, 3, 11, 0)
    /\ SatisfiesAll(dist.python_requires, <<3,11>>)
    /\ ~SatisfiesAll(dist.python_requires, <<3,9>>)
    /\ ~SatisfiesAll(dist.python_requires, <<3,10>>)
    /\ \A v \in { <<9,4,6>>, <<9,4,10>>, <<9,10,0>>, <<10,0,0>> } :
         SatisfiesAll(Requirement(1).specs, v)
    /\ \A v \in Published("twilio") :
         SatisfiesAll(Requirement(1).specs, v) <=> AtOrAbove(v, 9, 4, 6)
    /\ \A v \in { <<2,0,0>>, <<3,0,0>> } :
         SatisfiesAll(Requirement(2).specs, v)
    /\ \A v \in Published("trafilatura") :
         SatisfiesAll(Requirement(2).specs, v) <=> AtOrAbove(v, 2, 0, 0)
    /\ pythonChecked => AtOrAbove(python, 3, 11, 0)
    /\ outcome = "requires-python" => ~AtOrAbove(python, 3, 11, 0)
    /\ chosen[1] # NoVersion => AtOrAbove(chosen[1], 9, 4, 6)
    /\ chosen[2] # NoVersion => AtOrAbove(chosen[2], 2, 0, 0)

C10_Witness ==
  /\ pc = "check"
  /\ python = <<3,11>>
  /\ pythonChecked
  /\ chosen[1] = <<9,4,10>>
  /\ chosen[2] = <<2,0,0>>

=============================================================================
